---- MODULE Spec2Model ----
(***************************************************************************)
(* A state-machine model of youtube_scraper.scraper.YouTubeScraper: the    *)
(* retrying fetch (_make_request), the proxy pool (_get_proxy), the        *)
(* backoff helper (_handle_rate_limit), the channel candidate loop         *)
(* (scrape_channel), the per-entry loop of scrape_channel_videos and the   *)
(* run statistics that the scrape operations update.  One scraper          *)
(* instance, one coroutine at a time (the sequential scheduling the        *)
(* program uses), except in SpecRace, which runs two fetches side by side. *)
(* Spec runs every operation; SpecFetch, SpecBatch, SpecBackoff, SpecStats, *)
(* SpecComments, SpecPlaylists, SpecRefresh and SpecUtils run one part of  *)
(* the program, utils.make_request included, over a wider range of inputs. *)
(***************************************************************************)
EXTENDS Integers, Sequences, FiniteSets, TLC

VARIABLES
    max_retries,          \* constructor argument (scraper.py:52)
    use_proxies,          \* constructor argument (scraper.py:51)
    stats,                \* self.stats, the ScrapingStats counters
    session,              \* self.session is set
    proxy_pool,           \* self.proxy_pool, a list
    last_proxy_refresh,   \* self.last_proxy_refresh
    now,                  \* the last reading of time.time() (in _get_proxy)
    op,                   \* the operation started last
    pc,                   \* where that operation stands ("idle": none in flight)
    stack,                \* the _make_request activations, outermost first
    ret,                  \* the outcome travelling up from the innermost activation
    chan,                 \* scrape_channel's locals: idx, html_content, used_url
    proxy,                \* the local proxy of the running activation or loop pass
    result,               \* what the last finished operation handed to its caller
    uploads,              \* how many entries the channel's /videos listing has
    batch,                \* scrape_channel_videos' locals: max_videos, entries, videos
    backoff,              \* the call of _handle_rate_limit made by the last step
    lists,                \* scrape_playlists' locals: playlist_urls, the loop, playlists
    util,                 \* the running call of utils.make_request
    tasks,                \* two fetches run side by side on the one scraper
    obs                   \* history of the running operation (observation only)

vars == <<max_retries, use_proxies, stats, session, proxy_pool,
          last_proxy_refresh, now, op, pc, stack, ret, chan, proxy, result,
          uploads, batch, backoff, lists, util, tasks, obs>>

----------------------------------------------------------------------------
(* Bounds of the model *)

\* SpecFetch draws max_retries from 0..DeepRetries
DeepRetries == 3
\* the unbounded 403 recursion of _make_request is followed up to this retry_count
MaxDepth == 2
\* operations started on one scraper
MaxOps == 2
\* longest proxy pool followed
MaxPool == 2
\* SpecBatch draws the length of the channel's listing from 0..MaxEntries
MaxEntries == 5
\* SpecBackoff calls _handle_rate_limit with retry_count in 0..MaxAttempt
MaxAttempt == 11
\* calls of get_stats followed between two operations
MaxSnapshots == 2
MaxPlaylists == 3
MaxTries == 3

\* the readings of time.time() followed: the interval since a refresh can be
\* 0, exactly proxy_refresh_interval, or more
ClockReadings == {1000, 1300, 1700}
\* the values of max_retries Spec draws from
RetryChoices == {0, 1}
\* the listing lengths Spec draws from
UploadChoices == {1}
\* the values of max_retries SpecBackoff draws from
BackoffRetries == {1, 3, 10, 12}
\* random.uniform(0, 0.1 * base_delay), in hundredths of base_delay: the two
\* ends and the middle
JitterChoices == {0, 5, 10}

(* Program constants *)
proxy_refresh_interval == 300

None == "None"
Proxies == {"http://a", "http://b"}

Range(s) == {s[i] : i \in 1..Len(s)}

----------------------------------------------------------------------------
(* The world outside: HTTP responses.  status 0 stands for an exception    *)
(* raised by session.get or while the response is read (network failure,   *)
(* timeout); the body of a JSON response is "full" (every field the record *)
(* needs), "partial" (a truthy payload lacking a required field), "empty"  *)
(* (a falsy payload) or "notjson" (response.json() raises).  The body of a *)
(* channel page is "full" (the extraction builds the record), "partial"    *)
(* (the extraction raises: a script block with viewCountText before any    *)
(* with subscriberCountText reads the function-local name re unbound) or   *)
(* "empty" (the empty string).                                             *)

NetErr == [status |-> 0, body |-> "none"]
JsonBodies == {"full", "partial", "empty", "notjson"}
HtmlBodies == {"full", "partial", "empty"}
JsonResponses ==
    {NetErr} \cup {[status |-> s, body |-> "none"] : s \in {429, 403}}
             \cup [status : {200}, body : JsonBodies]
             \cup [status : {500}, body : {"full", "notjson"}]
HtmlResponses ==
    {NetErr} \cup {[status |-> s, body |-> "none"] : s \in {429, 403, 500}}
             \cup [status : {200}, body : HtmlBodies]

\* how a response is classed in the history
Class(r) ==
    CASE r.status = 429 -> "r429"
      [] r.status = 403 -> "r403"
      [] r.status = 0 -> "err"
      [] r.body = "notjson" -> "err"
      [] OTHER -> "payload"

----------------------------------------------------------------------------
(* ScrapingStats *)

\* end_time = None
NoTime == 0
\* datetime.now() in the constructor: the first clock reading
StartTime == CHOOSE t \in ClockReadings : \A u \in ClockReadings : t <= u
NewStats ==
    [start_time |-> StartTime, end_time |-> NoTime,
     total_items |-> 0, processed_items |-> 0, success_count |-> 0,
     error_count |-> 0, rate_limits_hit |-> 0, total_requests |-> 0]
\* the counters of ScrapingStats
Counters ==
    {"total_items", "processed_items", "success_count", "error_count",
     "rate_limits_hit", "total_requests"}

SnapshotRewinds(s, t) == [NewStats EXCEPT !.end_time = t]
\* self.stats.end_time = datetime.now()
Snapshot(s, t) == [s EXCEPT !.end_time = t]
MappingOfNew(s) == [NewStats EXCEPT !.end_time = s.end_time]
\* self.stats.dict()
Mapping(s) == s

RecordErrorTwice(s) == [s EXCEPT !.error_count = @ + 2]
RecordRequestTwice(s) == [s EXCEPT !.total_requests = @ + 2]
RecordRequestNever(s) == s
\* self.stats.total_requests += 1
RecordRequest(s) == [s EXCEPT !.total_requests = @ + 1]
\* self.stats.success_count += 1
RecordSuccess(s) == [s EXCEPT !.success_count = @ + 1]
\* self.stats.error_count += 1
RecordError(s) == [s EXCEPT !.error_count = @ + 1]
AfterInvalidIdCounted(s) == RecordError(RecordRequest(s))
\* the counters when the identifier check returns early: the return comes
\* before the try block and its total_requests += 1
AfterInvalidId(s) == s

\* history of one operation: HTTP requests and sleeps of its fetch, the
\* classes of the responses, whether _handle_rate_limit has raised and whether
\* a request or sleep followed that, the last response's class, the candidate
\* shapes requested and those answered 200.  refresh and fetched tell what
\* the _get_proxy call of the pending request did: "no" refresh, a refresh
\* in which "all failed", or one in which "some" source answered 200, and the
\* entries it fetched; answers is what the sources answered to a _get_proxy
\* called on its own.  warmup tells whether the last step visited the
\* trending page ("ok", "failed") or not ("no").  status is the status of the
\* response whose payload _make_request has just returned (0: none).  nstats counts the
\* get_stats calls since the last operation began, mapping is what the last
\* of them returned.  begun spans operations: those that passed their
\* identifier check.
NewObs ==
    [nreq |-> 0, nsleep |-> 0, seen |-> {}, exhausted |-> FALSE,
     afterExh |-> FALSE, last |-> "none", tried |-> <<>>, ok200 |-> {},
     refresh |-> "no", fetched |-> <<>>, answers |-> <<>>,
     warmup |-> "no", status |-> 0,
     nstats |-> 0, mapping |-> NewStats,
     begun |-> 0]
StartObs(o) == [NewObs EXCEPT !.begun = o.begun]

NoRet == [kind |-> "none", val |-> "none"]
\* html_content = None
NoHtml == [shape |-> 0, body |-> "none"]
\* the ChannelMetadata scrape_channel returns (the fields followed); "id" is
\* the identifier cut from the input, "url" the input: nothing returned yet,
\* and the record built by the except clause
NoChannel ==
    [channel_id |-> None, title |-> None, subscriber_count |-> 0,
     video_count |-> 0, view_count |-> 0, custom_url |-> None]
DefaultChannel ==
    [channel_id |-> "id", title |-> "id", subscriber_count |-> 0,
     video_count |-> 0, view_count |-> 0, custom_url |-> "url"]
\* scrape_channel_videos not running: no limit, no entries, no videos;
\* max_videos is None (NoLimit) or an integer n
NoLimit == [none |-> TRUE, n |-> 0]
NoBatch == [max_videos |-> NoLimit, entries |-> <<>>, i |-> 0, videos |-> <<>>,
            failed |-> {}]
NoChan == [idx |-> 0, html_content |-> NoHtml, used_url |-> 0, channel |-> NoChannel]
\* scrape_playlists not running: no candidate URLs, no playlists
NoLists == [urls |-> <<>>, i |-> 0, requested |-> <<>>, playlists |-> <<>>]
\* utils.make_request not running
NoUtil == [retries |-> 0, attempt |-> 0, answers |-> <<>>, ret |-> "none"]
\* no fetches side by side
NoTasks == <<>>

----------------------------------------------------------------------------
(* ProxyPool: _get_proxy and the removal on 403 *)

\* what one list source answers: a failure (exception or non-200), or 200
\* with a text, given as text.split('\n'): the empty text, "a\n" and " \nb "
SourceFailed == [ok |-> FALSE, lines |-> <<>>]
Texts == {<<"">>, <<"a", "">>, <<" ", "b ">>}
SourceAnswers == {SourceFailed} \cup [ok : {TRUE}, lines : Texts]
NoAnswers == <<SourceFailed, SourceFailed, SourceFailed>>
AllAnswers == [1..3 -> SourceAnswers]

\* proxy.strip(), on the lines of Texts
Strip(line) ==
    CASE line = " " -> ""
      [] line = "b " -> "b"
      [] OTHER -> line
\* f'http://{proxy.strip()}'
ProxyUrl(line) == "http://" \o Strip(line)
\* [f'http://{proxy.strip()}' for proxy in text.split('\n') if proxy.strip()]
\* of a source that answered 200; a failed source adds nothing
Entries(a) ==
    IF a.ok
    THEN LET kept == SelectSeq(a.lines, LAMBDA line : Strip(line) # "")
         IN [i \in 1..Len(kept) |-> ProxyUrl(kept[i])]
    ELSE <<>>
\* a refresh that gave up at the first source that failed
FetchedUntilFailure(answers) ==
    IF ~answers[1].ok THEN <<>>
    ELSE IF ~answers[2].ok THEN Entries(answers[1])
    ELSE Entries(answers[1]) \o Entries(answers[2]) \o Entries(answers[3])
\* the entries one refresh appends, in source order
Fetched(answers) == Entries(answers[1]) \o Entries(answers[2]) \o Entries(answers[3])

NeedRefreshStaleOnly(pool, last, t) == (t - last) > proxy_refresh_interval
NeedRefreshAtInterval(pool, last, t) ==
    pool = <<>> \/ (t - last) >= proxy_refresh_interval
\* the condition of scraper.py:160
NeedRefresh(pool, last, t) == pool = <<>> \/ (t - last) > proxy_refresh_interval

RefreshedPoolWholesale(pool, answers) == Fetched(answers)
\* self.proxy_pool.extend(proxies), source after source
RefreshedPool(pool, answers) == pool \o Fetched(answers)

\* list.remove(p): the first occurrence only
RECURSIVE Remove(_, _)
Remove(pool, p) ==
    IF pool = <<>> THEN <<>>
    ELSE IF Head(pool) = p THEN Tail(pool)
    ELSE <<Head(pool)>> \o Remove(Tail(pool), p)

\* current_time = time.time(): the clock never runs backwards
ClockChoices ==
    IF use_proxies
    THEN {t \in ClockReadings : t >= now}
    ELSE {now}

\* _get_proxy called at time t, the sources answering `answers`: the pool and
\* the refresh time it leaves, and what the sources may answer
RefreshesUnasked(t) == NeedRefresh(proxy_pool, last_proxy_refresh, t)
Refreshes(t) == use_proxies /\ NeedRefresh(proxy_pool, last_proxy_refresh, t)
PoolAfterGet(t, answers) ==
    IF Refreshes(t) THEN RefreshedPool(proxy_pool, answers) ELSE proxy_pool
LastAfterGet(t) == IF Refreshes(t) THEN t ELSE last_proxy_refresh
AnswerChoices(t) ==
    IF Refreshes(t)
    THEN {a \in AllAnswers : Len(RefreshedPool(proxy_pool, a)) <= MaxPool}
    ELSE {NoAnswers}
\* what the refresh of a call at time t did, for the history
RefreshKind(t, answers) ==
    CASE ~Refreshes(t) -> "no"
      [] \A k \in 1..3 : ~answers[k].ok -> "all failed"
      [] OTHER -> "some"
ProxyChoicesOrNone(pool) == Range(pool) \cup {None}
\* random.choice(self.proxy_pool), or None
ProxyChoices(pool) ==
    IF ~use_proxies \/ pool = <<>> THEN {None} ELSE Range(pool)

\* the pool after a 403 answered through proxy
Penalize(pool, p) == IF p # None THEN Remove(pool, p) ELSE pool

----------------------------------------------------------------------------
(* BackoffController: _handle_rate_limit *)

HandleRateLimitRaisesPast(retry_count) == retry_count > max_retries
\* TRUE when _handle_rate_limit(retry_count) raises instead of sleeping
HandleRateLimitRaises(retry_count) == retry_count >= max_retries

BaseDelayUncapped(retry_count) == 2 ^ retry_count
\* base_delay = min(300, 2 ** retry_count), in seconds
BaseDelay(retry_count) ==
    IF 2 ^ retry_count < 300 THEN 2 ^ retry_count ELSE 300
\* delay = base_delay + jitter, in hundredths of a second
Delay(retry_count, jitter) ==
    100 * BaseDelay(retry_count) + jitter * BaseDelay(retry_count)

\* no call of _handle_rate_limit
NoBackoff == [retry_count |-> -1, raised |-> FALSE, sleeps |-> 0, delay |-> 0]
\* one call of _handle_rate_limit(retry_count): it raises, or calls
\* time.sleep(delay) once and returns
HandleRateLimit(retry_count, jitter) ==
    IF HandleRateLimitRaises(retry_count)
    THEN [retry_count |-> retry_count, raised |-> TRUE, sleeps |-> 0, delay |-> 0]
    ELSE [retry_count |-> retry_count, raised |-> FALSE, sleeps |-> 1,
          delay |-> Delay(retry_count, jitter)]
\* the calls a step can make on the response r: one on 429, else none
BackoffOn(r, retry_count) ==
    IF r.status = 429
    THEN {HandleRateLimit(retry_count, j) : j \in JitterChoices}
    ELSE {NoBackoff}

----------------------------------------------------------------------------
(* RequestExecutor: _make_request, one activation per recursive call.  An  *)
(* activation is "start" (not yet run), "request" (session and proxy are   *)
(* there, the request is next), "try" (awaiting the call it made inside    *)
(* its try block) or "except" (awaiting the call it made inside its except *)
(* clause).                                                                *)

Top(stk) == stk[Len(stk)]
Pop(stk) == SubSeq(stk, 1, Len(stk) - 1)

\* the top activation calls self._make_request(url, retry_count + 1) from `at`
Call(stk, at) ==
    Pop(stk) \o <<[Top(stk) EXCEPT !.at = at],
                  [retry_count |-> Top(stk).retry_count + 1, at |-> "start"]>>

MayRetryInclusive(retry_count) == retry_count <= max_retries
\* the test of the except clause, scraper.py:260
MayRetry(retry_count) == retry_count < max_retries

\* the except clause of the top activation, entered with exception e
ExceptClause(stk, e) ==
    IF MayRetry(Top(stk).retry_count)
    THEN [stack |-> Call(stk, "except"), ret |-> NoRet, slept |-> 1]
    ELSE [stack |-> Pop(stk), ret |-> [kind |-> "raise", val |-> e], slept |-> 0]

\* the body of the try block once the response r is in
AfterResponse(stk, r) ==
    CASE r.status = 0 -> ExceptClause(stk, "error")
      [] r.status = 429 ->
            IF HandleRateLimitRaises(Top(stk).retry_count)
            THEN ExceptClause(stk, "Max retries exceeded")
            ELSE [stack |-> Call(stk, "try"), ret |-> NoRet, slept |-> 1]
      [] r.status = 403 -> [stack |-> Call(stk, "try"), ret |-> NoRet, slept |-> 0]
      [] OTHER ->
            IF r.body = "notjson"
            THEN ExceptClause(stk, "error")
            ELSE [stack |-> Pop(stk), ret |-> [kind |-> "return", val |-> r.body],
                  slept |-> 0]

\* an outcome reaches the activation that awaits it
AfterAwait(stk, outcome) ==
    IF outcome.kind = "raise" /\ Top(stk).at = "try"
    THEN ExceptClause(stk, outcome.val)
    ELSE [stack |-> Pop(stk), ret |-> outcome, slept |-> 0]

----------------------------------------------------------------------------
InitFor(retries, proxies, listings) ==
    /\ max_retries \in retries
    /\ use_proxies \in proxies
    /\ uploads \in listings
    /\ batch = NoBatch
    /\ backoff = NoBackoff
    /\ lists = NoLists
    /\ util = NoUtil
    /\ tasks = NoTasks
    /\ stats = NewStats
    /\ session = FALSE
    /\ proxy_pool = <<>>
    /\ last_proxy_refresh = 0
    /\ now = StartTime
    /\ op = "none"
    /\ pc = "idle"
    /\ stack = <<>>
    /\ ret = NoRet
    /\ chan = NoChan
    /\ proxy = None
    /\ result = "none"
    /\ obs = NewObs

\* YouTubeScraper(use_proxies=..., max_retries=...)
Init == InitFor(RetryChoices, BOOLEAN, UploadChoices)

\* scrape_video up to the call of _make_request
ScrapeVideoStart ==
    /\ pc = "idle"
    /\ op' = "scrape_video"
    /\ ret' = NoRet
    /\ chan' = NoChan
    /\ \E video_id \in {None, "id"} :
         IF video_id = None
         THEN /\ pc' = "idle"
              /\ result' = None
              /\ obs' = StartObs(obs)
              /\ stack' = <<>>
              /\ stats' = AfterInvalidId(stats)
         ELSE /\ obs.begun < MaxOps
              /\ stats' = RecordRequest(stats)
              /\ pc' = "fetch"
              /\ result' = "none"
              /\ stack' = <<[retry_count |-> 0, at |-> "start"]>>
              /\ obs' = [StartObs(obs) EXCEPT !.begun = @ + 1]
    /\ batch' = NoBatch
    /\ backoff' = NoBackoff
    /\ UNCHANGED <<lists, util, tasks, max_retries, use_proxies, uploads, session, proxy_pool,
                   last_proxy_refresh, now, proxy>>

\* if not self.session: await self._create_session(): the session is there
\* already ("kept"), or aiohttp.ClientSession(...) raises, or the session is
\* created and the trending page visited, which works or fails
CreateSessionOutcomes(has) ==
    IF has THEN {"kept"} ELSE {"warm", "warm-up failed", "raises"}
WarmupAlways(created) == IF created = "warm-up failed" THEN "failed" ELSE "ok"
\* the visit of the trending page that _create_session made
Warmup(created) ==
    CASE created = "warm" -> "ok"
      [] created = "warm-up failed" -> "failed"
      [] OTHER -> "no"

\* proxy = await self._get_proxy() if self.use_proxies else None; warmup
\* is what the caller has to note about its session
GetProxy(warmup) ==
    \E t \in ClockChoices :
    \E answers \in AnswerChoices(t) :
        /\ now' = t
        /\ proxy_pool' = PoolAfterGet(t, answers)
        /\ last_proxy_refresh' = LastAfterGet(t)
        /\ proxy' \in ProxyChoices(PoolAfterGet(t, answers))
        /\ obs' = [obs EXCEPT !.warmup = warmup,
                              !.refresh = RefreshKind(t, answers),
                              !.fetched = IF Refreshes(t) THEN Fetched(answers)
                                                          ELSE <<>>]

\* _get_proxy called on its own, on a scraper built with use_proxies=True;
\* the history keeps what the three sources answered
GetProxyCall ==
    /\ pc = "idle" /\ use_proxies
    /\ op' = "_get_proxy"
    /\ \E t \in ClockChoices :
       \E answers \in AnswerChoices(t) :
        /\ now' = t
        /\ proxy_pool' = PoolAfterGet(t, answers)
        /\ last_proxy_refresh' = LastAfterGet(t)
        /\ proxy' \in ProxyChoices(PoolAfterGet(t, answers))
        /\ obs' = [obs EXCEPT !.refresh = RefreshKind(t, answers),
                              !.fetched = IF Refreshes(t) THEN Fetched(answers)
                                                          ELSE <<>>,
                              !.answers = answers]
    /\ backoff' = NoBackoff
    /\ UNCHANGED <<lists, util, tasks, max_retries, use_proxies, uploads, batch, stats, session, pc,
                   stack, ret, chan, result>>

\* an activation of _make_request begins: the session, then the proxy
MakeRequestEnter ==
    /\ pc = "fetch" /\ ret.kind = "none" /\ stack # <<>>
    /\ Top(stack).at = "start"
    /\ \E created \in CreateSessionOutcomes(session) :
         IF created = "raises"
         THEN \* the call is made before the try block: the activation ends
              /\ stack' = Pop(stack)
              /\ ret' = [kind |-> "raise", val |-> "error"]
              /\ UNCHANGED <<session, proxy_pool, last_proxy_refresh, now, proxy,
                             obs>>
         ELSE /\ session' = TRUE
              /\ GetProxy(Warmup(created))
              /\ stack' = Pop(stack) \o <<[Top(stack) EXCEPT !.at = "request"]>>
              /\ ret' = ret
    /\ backoff' = NoBackoff
    /\ UNCHANGED <<lists, util, tasks, max_retries, use_proxies, uploads, batch, stats, op, pc, chan,
                   result>>

\* the activation sends its request and acts on the response
MakeRequest ==
    /\ pc = "fetch" /\ ret.kind = "none" /\ stack # <<>>
    /\ Top(stack).at = "request"
    /\ \E r \in JsonResponses :
         LET next == AfterResponse(stack, r)
             signal == r.status = 429 /\ HandleRateLimitRaises(Top(stack).retry_count)
         IN /\ r.status = 403 => Top(stack).retry_count < MaxDepth
            /\ proxy_pool' = IF r.status = 403 THEN Penalize(proxy_pool, proxy)
                                               ELSE proxy_pool
            /\ stack' = next.stack
            /\ ret' = next.ret
            /\ backoff' \in BackoffOn(r, Top(stack).retry_count)
            /\ obs' = [obs EXCEPT
                                !.nreq = @ + 1,
                                !.nsleep = @ + next.slept,
                                !.seen = @ \cup {Class(r)},
                                !.last = Class(r),
                                !.refresh = "no",
                                !.fetched = <<>>,
                                !.warmup = "no",
                                !.status = IF next.ret.kind = "return"
                                           THEN r.status ELSE 0,
                                !.afterExh = @ \/ obs.exhausted,
                                !.exhausted = @ \/ signal]
    /\ proxy' = None
    /\ UNCHANGED <<lists, util, tasks, max_retries, use_proxies, uploads, batch, stats, session, last_proxy_refresh,
                   now, op, pc, chan, result>>

\* the outcome of an activation reaches its caller, another activation
MakeRequestResume ==
    /\ pc = "fetch" /\ ret.kind # "none" /\ stack # <<>>
    /\ LET next == AfterAwait(stack, ret)
       IN /\ stack' = next.stack
          /\ ret' = next.ret
          /\ obs' = [obs EXCEPT !.nsleep = @ + next.slept,
                                !.last = "none",
                                !.status = 0,
                                !.afterExh = @ \/ (obs.exhausted /\ next.slept = 1)]
    /\ backoff' = NoBackoff
    /\ UNCHANGED <<lists, util, tasks, max_retries, use_proxies, uploads, batch, stats, session, proxy_pool,
                   last_proxy_refresh, now, op, pc, chan, proxy, result>>

\* what scrape_video does with the outcome of _make_request
VideoOutcome(outcome) ==
    CASE outcome.kind = "raise" -> "error"
      [] outcome.val = "empty" -> "nothing"
      [] outcome.val = "partial" -> "error"
      [] OTHER -> "success"

\* the counters after an operation ended in `how`
Counted(s, how) ==
    CASE how = "success" -> RecordSuccess(s)
      [] how = "error" -> RecordError(s)
      [] OTHER -> s

\* scrape_video after _make_request: build the record, count the outcome
ScrapeVideoFinish ==
    /\ op = "scrape_video" /\ pc = "fetch" /\ stack = <<>> /\ ret.kind # "none"
    /\ pc' = "idle"
    /\ stats' = Counted(stats, VideoOutcome(ret))
    /\ result' = IF VideoOutcome(ret) = "success" THEN "record" ELSE None
    /\ obs' = [obs EXCEPT !.status = 0]
    /\ backoff' = NoBackoff
    /\ UNCHANGED <<lists, util, tasks, max_retries, use_proxies, uploads, batch, session, proxy_pool,
                   last_proxy_refresh, now, op, stack, ret, chan, proxy>>

----------------------------------------------------------------------------
(* CandidateResolver: the loop of scrape_channel over urls_to_try *)

NShapes == 3
\* not html_content
Falsy(html) == html.body \in {"none", "empty"}

AfterCandidateNoBreak(c, r) ==
    IF r.status = 200
    THEN [idx |-> c.idx + 1,
          html_content |-> [shape |-> c.idx, body |-> r.body], used_url |-> 0]
    ELSE [c EXCEPT !.idx = @ + 1]
\* how one pass of the loop body leaves it, the response r in: "break" on
\* 200; on 429 _handle_rate_limit(0) sleeps and the pass continues, or raises
\* into the pass's except clause, which sleeps and continues; "continue" on
\* 403; any other status falls through to the sleep that ends the body
CandidatePass(r) ==
    CASE r.status = 0 -> "except"
      [] r.status = 200 -> "break"
      [] r.status = 429 -> IF HandleRateLimitRaises(0) THEN "except" ELSE "continue"
      [] r.status = 403 -> "continue"
      [] OTHER -> "falls through"

AfterCandidateRetry429(c, r) ==
    CASE CandidatePass(r) = "break" ->
            [c EXCEPT !.html_content = [shape |-> c.idx, body |-> r.body],
                      !.used_url = c.idx]
      [] r.status = 429 /\ CandidatePass(r) = "continue" -> c
      [] OTHER -> [c EXCEPT !.idx = @ + 1]
\* the locals after one pass: break on 200 keeps the body, every other way
\* out of the pass moves the for loop to the next shape
AfterCandidate(c, r) ==
    IF CandidatePass(r) = "break"
    THEN [c EXCEPT !.html_content = [shape |-> c.idx, body |-> r.body],
                   !.used_url = c.idx]
    ELSE [c EXCEPT !.idx = @ + 1]

\* the loop is over: a break, or no shape left
LoopOver(c) == c.used_url # 0 \/ c.idx > NShapes

\* the three shapes of urls_to_try
ShapeUrls == <<"@id", "c/id", "channel/id">>
\* the record built from the page: its title and the counts found in it
ParsedChannel(c) ==
    [channel_id |-> "id", title |-> "og:title", subscriber_count |-> 1,
     video_count |-> 1, view_count |-> 1, custom_url |-> ShapeUrls[c.used_url]]

\* what scrape_channel does after the loop
ChannelOutcome(c) ==
    CASE Falsy(c.html_content) -> "error"
      [] c.html_content.body = "partial" -> "error"
      [] OTHER -> "success"

\* scrape_channel up to the loop
ScrapeChannelStart ==
    /\ pc = "idle" /\ obs.begun < MaxOps
    /\ op' = "scrape_channel"
    /\ stack' = <<>>
    /\ ret' = NoRet
    /\ \E created \in CreateSessionOutcomes(session) :
         /\ obs' = [StartObs(obs) EXCEPT !.begun = @ + 1,
                                         !.warmup = Warmup(created)]
         /\ IF created = "raises"
            THEN \* the except clause runs with channel_id unbound
                 /\ stats' = RecordError(RecordRequest(stats))
                 /\ pc' = "idle"
                 /\ result' = "raised"
                 /\ chan' = NoChan
                 /\ session' = session
            ELSE /\ stats' = RecordRequest(stats)
                 /\ pc' = "candidates"
                 /\ result' = "none"
                 /\ chan' = [NoChan EXCEPT !.idx = 1]
                 /\ session' = TRUE
    /\ batch' = NoBatch
    /\ backoff' = NoBackoff
    /\ UNCHANGED <<lists, util, tasks, max_retries, use_proxies, uploads, proxy_pool, last_proxy_refresh, now,
                   proxy>>

\* a pass of the loop begins: the proxy for this shape
ScrapeChannelProxy ==
    /\ op = "scrape_channel" /\ pc = "candidates"
    /\ GetProxy("no")
    /\ pc' = "request"
    /\ backoff' = NoBackoff
    /\ UNCHANGED <<lists, util, tasks, max_retries, use_proxies, uploads, batch, stats, session, op, stack, ret, chan,
                   result>>

\* the pass requests its shape and acts on the response
ScrapeChannelTry ==
    /\ op = "scrape_channel" /\ pc = "request"
    /\ \E r \in HtmlResponses :
         /\ proxy_pool' = IF r.status = 403 THEN Penalize(proxy_pool, proxy)
                                            ELSE proxy_pool
         /\ chan' = AfterCandidate(chan, r)
         /\ backoff' \in BackoffOn(r, 0)
         /\ pc' = IF LoopOver(AfterCandidate(chan, r)) THEN "parse" ELSE "candidates"
         /\ obs' = [obs EXCEPT
                        !.tried = Append(@, chan.idx),
                        !.ok200 = IF r.status = 200 THEN @ \cup {chan.idx} ELSE @,
                        !.exhausted = @ \/ (r.status = 429 /\ HandleRateLimitRaises(0)),
                        !.refresh = "no",
                        !.fetched = <<>>,
                        !.last = Class(r)]
    /\ proxy' = None
    /\ UNCHANGED <<lists, util, tasks, max_retries, use_proxies, uploads, batch, stats, session, last_proxy_refresh,
                   now, op, stack, ret, result>>

\* scrape_channel after the loop: extract, count, return
ScrapeChannelFinish ==
    /\ op = "scrape_channel" /\ pc = "parse"
    /\ pc' = "idle"
    /\ stats' = Counted(stats, ChannelOutcome(chan))
    /\ result' = IF ChannelOutcome(chan) = "success" THEN "record" ELSE "default"
    /\ chan' = [chan EXCEPT !.channel = IF ChannelOutcome(chan) = "success"
                                        THEN ParsedChannel(chan)
                                        ELSE DefaultChannel]
    /\ backoff' = NoBackoff
    /\ UNCHANGED <<lists, util, tasks, max_retries, use_proxies, uploads, batch, session, proxy_pool,
                   last_proxy_refresh, now, op, stack, ret, proxy, obs>>

----------------------------------------------------------------------------
(* The operations that go through yt-dlp or utils.make_request *)

\* how each operation can end once past total_requests += 1:
\* "error" (its except clause), "nothing" (an early return) or "success"
Endings(name) ==
    CASE name = "scrape_comments" -> {"error", "nothing", "success"}
      [] name = "scrape_playlists" -> {"nothing", "success"}
      [] name = "scrape_community_posts" -> {"error", "nothing", "success"}

\* the operations that check an identifier before anything else
ChecksId(name) == name \in {"scrape_comments", "scrape_community_posts"}

StartOf(name) ==
    /\ pc = "idle"
    /\ op' = name
    /\ stack' = <<>>
    /\ ret' = NoRet
    /\ chan' = NoChan
    /\ \E id \in (IF ChecksId(name) THEN {None, "id"} ELSE {"id"}) :
         IF id = None
         THEN /\ pc' = "idle"
              /\ result' = "empty list"
              /\ stats' = AfterInvalidId(stats)
              /\ obs' = StartObs(obs)
         ELSE /\ obs.begun < MaxOps
              /\ pc' = "extract"
              /\ result' = "none"
              /\ stats' = RecordRequest(stats)
              /\ obs' = [StartObs(obs) EXCEPT !.begun = @ + 1]
    /\ batch' = NoBatch
    /\ backoff' = NoBackoff
    /\ UNCHANGED <<lists, util, tasks, max_retries, use_proxies, uploads, session, proxy_pool,
                   last_proxy_refresh, now, proxy>>

FinishOf(name) ==
    /\ op = name /\ pc = "extract"
    /\ pc' = "idle"
    /\ \E how \in Endings(name) :
         /\ stats' = Counted(stats, how)
         /\ result' = IF how = "success" THEN "list" ELSE "empty list"
    /\ backoff' = NoBackoff
    /\ UNCHANGED <<lists, util, tasks, max_retries, use_proxies, uploads, batch, session, proxy_pool,
                   last_proxy_refresh, now, op, stack, ret, chan, proxy, obs>>

ScrapeCommentsStart == StartOf("scrape_comments")
ScrapeCommentsFinish == FinishOf("scrape_comments")
ScrapePlaylistsStart == StartOf("scrape_playlists")
ScrapePlaylistsFinish == FinishOf("scrape_playlists")
ScrapeCommunityPostsStart == StartOf("scrape_community_posts")
ScrapeCommunityPostsFinish == FinishOf("scrape_community_posts")

----------------------------------------------------------------------------
(* BatchProcessor: scrape_channel_videos, one deep fetch per listed entry *)

\* info["entries"] of a channel with n uploads: entry ids 1..n, newest first
Listing(n) == [k \in 1..n |-> k]
\* the limits a caller passes: None, 0, a positive count up to past the end
\* of the listing, and -1
MaxVideosChoices ==
    {NoLimit} \cup {[none |-> FALSE, n |-> k] : k \in -1 .. uploads + 1}
\* the truth value Python gives max_videos
Truthy(max_videos) == ~max_videos.none /\ max_videos.n # 0
\* seq[:k] for an integer k
SliceTo(seq, k) ==
    IF k >= 0
    THEN SubSeq(seq, 1, IF k < Len(seq) THEN k ELSE Len(seq))
    ELSE SubSeq(seq, 1, IF Len(seq) + k > 0 THEN Len(seq) + k ELSE 0)
EntriesAll(listing, max_videos) == listing
\* entries = info["entries"][:max_videos] if max_videos else info["entries"]
EntriesOf(listing, max_videos) ==
    IF Truthy(max_videos) THEN SliceTo(listing, max_videos.n) ELSE listing

\* info["comments"][:max_comments]: the top-level comments the loop of
\* scrape_comments goes through
CommentsOf(listing, max_comments) ==
    IF max_comments.none THEN listing ELSE SliceTo(listing, max_comments.n)

\* how the body of the for loop ends for one entry: the record is appended,
\* or extract_info raises, or building VideoMetadata raises
EntryOutcomes == {"appended", "extract_info raises", "VideoMetadata raises"}

AfterEntryAbort(b, outcome) ==
    IF outcome = "appended"
    THEN [b EXCEPT !.i = @ + 1, !.videos = Append(@, b.entries[b.i])]
    ELSE [b EXCEPT !.i = Len(b.entries) + 1, !.failed = @ \cup {b.entries[b.i]}]
\* the locals after the pass for entry i: the inner except clause logs and
\* continues
AfterEntry(b, outcome) ==
    IF outcome = "appended"
    THEN [b EXCEPT !.i = @ + 1, !.videos = Append(@, b.entries[b.i])]
    ELSE [b EXCEPT !.i = @ + 1, !.failed = @ \cup {b.entries[b.i]}]

\* scrape_channel_videos up to the for loop: the listing is fetched
ScrapeChannelVideosStart ==
    /\ pc = "idle" /\ obs.begun < MaxOps
    /\ op' = "scrape_channel_videos"
    /\ stack' = <<>>
    /\ ret' = NoRet
    /\ chan' = NoChan
    /\ obs' = [StartObs(obs) EXCEPT !.begun = @ + 1]
    /\ \E max_videos \in MaxVideosChoices :
       \E info \in {"raises", "no entries", "entries"} :
         CASE info = "raises" ->
                /\ stats' = RecordError(RecordRequest(stats))
                /\ pc' = "idle"
                /\ result' = "empty list"
                /\ batch' = [NoBatch EXCEPT !.max_videos = max_videos]
           [] info = "no entries" ->
                /\ stats' = RecordRequest(stats)
                /\ pc' = "idle"
                /\ result' = "empty list"
                /\ batch' = [NoBatch EXCEPT !.max_videos = max_videos]
           [] OTHER ->
                /\ stats' = RecordRequest(stats)
                /\ pc' = "entries"
                /\ result' = "none"
                /\ batch' = [NoBatch EXCEPT
                                !.max_videos = max_videos,
                                !.entries = EntriesOf(Listing(uploads), max_videos),
                                !.i = 1]
    /\ backoff' = NoBackoff
    /\ UNCHANGED <<lists, util, tasks, max_retries, use_proxies, uploads, session, proxy_pool,
                   last_proxy_refresh, now, proxy>>

\* one pass of the for loop: the deep fetch and the record of entry i
ScrapeChannelVideosEntry ==
    /\ op = "scrape_channel_videos" /\ pc = "entries"
    /\ batch.i <= Len(batch.entries)
    /\ \E outcome \in EntryOutcomes : batch' = AfterEntry(batch, outcome)
    /\ backoff' = NoBackoff
    /\ UNCHANGED <<lists, util, tasks, max_retries, use_proxies, uploads, stats, session, proxy_pool,
                   last_proxy_refresh, now, op, pc, stack, ret, chan, proxy,
                   result, obs>>

\* the loop is over: count the success, return videos
ScrapeChannelVideosFinish ==
    /\ op = "scrape_channel_videos" /\ pc = "entries"
    /\ batch.i > Len(batch.entries)
    /\ pc' = "idle"
    /\ stats' = RecordSuccess(stats)
    /\ result' = "list"
    /\ backoff' = NoBackoff
    /\ UNCHANGED <<lists, util, tasks, max_retries, use_proxies, uploads, batch, session, proxy_pool,
                   last_proxy_refresh, now, op, stack, ret, chan, proxy, obs>>

----------------------------------------------------------------------------
\* _handle_rate_limit called on its own with some retry_count
HandleRateLimitCall ==
    /\ pc = "idle"
    /\ \E retry_count \in 0..MaxAttempt :
         backoff' \in BackoffOn([status |-> 429, body |-> "none"], retry_count)
    /\ UNCHANGED <<lists, util, tasks, max_retries, use_proxies, uploads, batch, stats, session,
                   proxy_pool, last_proxy_refresh, now, op, pc, stack, ret, chan,
                   proxy, result, obs>>

\* close(): the session is closed and forgotten
Close ==
    /\ pc = "idle" /\ session
    /\ session' = FALSE
    /\ op' = "close"
    /\ backoff' = NoBackoff
    /\ UNCHANGED <<lists, util, tasks, max_retries, use_proxies, uploads, batch, stats, proxy_pool,
                   last_proxy_refresh, now, pc, stack, ret, chan, proxy, result, obs>>

\* get_stats(): stamp end_time, return the statistics as a mapping
GetStats ==
    /\ pc = "idle" /\ obs.nstats < MaxSnapshots
    /\ op' = "get_stats"
    /\ result' = "mapping"
    /\ \E t \in {u \in ClockReadings : u >= now} :
         /\ now' = t
         /\ stats' = Snapshot(stats, t)
         /\ obs' = [obs EXCEPT !.nstats = @ + 1,
                               !.mapping = Mapping(Snapshot(stats, t))]
    /\ backoff' = NoBackoff
    /\ UNCHANGED <<lists, util, tasks, max_retries, use_proxies, uploads, batch, session, proxy_pool,
                   last_proxy_refresh, pc, stack, ret, chan, proxy>>

\* scrape_comments on a valid URL whose video lists `uploads` top-level
\* comments, from the identifier check to the return: the body has no await,
\* so it is one step.  batch keeps the limit passed (max_comments), the
\* comments the loop went through and the records appended for them.
ScrapeCommentsListed ==
    /\ pc = "idle" /\ obs.begun < MaxOps
    /\ op' = "scrape_comments"
    /\ obs' = [StartObs(obs) EXCEPT !.begun = @ + 1]
    /\ \E max_comments \in MaxVideosChoices :
       \E info \in {"raises", "no comments", "comments"} :
         CASE info = "raises" ->
                /\ stats' = RecordError(RecordRequest(stats))
                /\ result' = "empty list"
                /\ batch' = [NoBatch EXCEPT !.max_videos = max_comments]
           [] info = "no comments" ->
                /\ stats' = RecordRequest(stats)
                /\ result' = "empty list"
                /\ batch' = [NoBatch EXCEPT !.max_videos = max_comments]
           [] OTHER ->
                LET comments == CommentsOf(Listing(uploads), max_comments)
                IN /\ stats' = RecordSuccess(RecordRequest(stats))
                   /\ result' = "list"
                   /\ batch' = [NoBatch EXCEPT !.max_videos = max_comments,
                                               !.entries = comments,
                                               !.i = Len(comments) + 1,
                                               !.videos = comments]
    /\ backoff' = NoBackoff
    /\ UNCHANGED <<lists, util, tasks, max_retries, use_proxies, uploads, session, proxy_pool,
                   last_proxy_refresh, now, pc, stack, ret, chan, proxy>>

----------------------------------------------------------------------------
(* scrape_playlists: the loop over the candidate playlist URLs *)

\* playlist_urls has three candidates
NCandidates == 3
\* playlist_urls: the first two are always there, the third is None when
\* extract_channel_id(url) finds no identifier
PlaylistUrls(has_id) == <<TRUE, TRUE, has_id>>
\* the records one candidate adds: entries 1..n listed, those in good built,
\* in listing order; the inner except clause skips the others
RECURSIVE Built(_, _, _, _)
Built(candidate, k, n, good) ==
    IF k > n THEN <<>>
    ELSE (IF k \in good THEN <<[from |-> candidate, id |-> k]>> ELSE <<>>)
            \o Built(candidate, k + 1, n, good)
\* what extract_info returns for one candidate: it raises, or the info has
\* no "entries", or it lists n entries of which those in good can be built
CandidateInfos ==
    {[kind |-> "raises", n |-> 0, good |-> {}],
     [kind |-> "no entries", n |-> 0, good |-> {}]}
    \cup {[kind |-> "entries", n |-> n, good |-> g] :
             n \in 0..MaxPlaylists, g \in SUBSET (1..MaxPlaylists)}
PlaylistsAfter(l, info) ==
    IF info.kind = "entries"
    THEN l.playlists \o Built(l.i, 1, info.n, info.good \cap (1..info.n))
    ELSE l.playlists
NeverBreak(l, info) == FALSE
\* if playlists: break, reached only when the info had entries
Breaks(l, info) == info.kind = "entries" /\ PlaylistsAfter(l, info) # <<>>

\* scrape_playlists up to the loop
ScrapePlaylistsListStart ==
    /\ pc = "idle" /\ obs.begun < MaxOps
    /\ op' = "scrape_playlists"
    /\ pc' = "playlists"
    /\ result' = "none"
    /\ stats' = RecordRequest(stats)
    /\ obs' = [StartObs(obs) EXCEPT !.begun = @ + 1]
    /\ \E has_id \in BOOLEAN :
         lists' = [NoLists EXCEPT !.urls = PlaylistUrls(has_id), !.i = 1]
    /\ backoff' = NoBackoff
    /\ UNCHANGED <<util, tasks, max_retries, use_proxies, uploads, batch, session,
                   proxy_pool, last_proxy_refresh, now, stack, ret, chan, proxy>>

\* one pass of the loop: an absent candidate is skipped, a present one is
\* handed to yt-dlp
ScrapePlaylistsCandidate ==
    /\ op = "scrape_playlists" /\ pc = "playlists"
    /\ lists.i <= NCandidates
    /\ IF ~lists.urls[lists.i]
       THEN lists' = [lists EXCEPT !.i = @ + 1]
       ELSE \E info \in CandidateInfos :
              lists' = [lists EXCEPT
                          !.requested = Append(@, lists.i),
                          !.playlists = PlaylistsAfter(lists, info),
                          !.i = IF Breaks(lists, info) THEN NCandidates + 1
                                                      ELSE @ + 1]
    /\ backoff' = NoBackoff
    /\ UNCHANGED <<util, tasks, max_retries, use_proxies, uploads, batch, stats,
                   session, proxy_pool, last_proxy_refresh, now, op, pc, stack,
                   ret, chan, proxy, result, obs>>

\* after the loop: a non-empty list counts as a success
ScrapePlaylistsListFinish ==
    /\ op = "scrape_playlists" /\ pc = "playlists"
    /\ lists.i > NCandidates
    /\ pc' = "idle"
    /\ stats' = IF lists.playlists # <<>> THEN RecordSuccess(stats) ELSE stats
    /\ result' = IF lists.playlists # <<>> THEN "list" ELSE "empty list"
    /\ backoff' = NoBackoff
    /\ UNCHANGED <<lists, util, tasks, max_retries, use_proxies, uploads, batch,
                   session, proxy_pool, last_proxy_refresh, now, op, stack, ret,
                   chan, proxy, obs>>

----------------------------------------------------------------------------
(* Two fetches side by side: asyncio.gather of two _make_request calls on  *)
(* one scraper.  Each call is followed from its _get_proxy to the handling *)
(* of its response; the calls switch at their awaits, that of _get_proxy   *)
(* and that of session.get.  _get_proxy is taken as one step.              *)

\* one call: where it stands ("start", "request", "returned", "retries",
\* "except"), its local proxy, whether it removed that proxy from the pool
NewTask == [at |-> "start", proxy |-> None, removed |-> FALSE]
\* the statuses followed in a race
RaceStatuses == {200, 403}
\* list.remove(x) raises ValueError when x is not in the list
RemoveRaises(pool, p) == p \notin Range(pool)
\* the call after its response: 200 returns, 403 removes the proxy and
\* retries, and a ValueError from the removal lands in the except clause
TaskAfter(task, status, pool) ==
    CASE status # 403 -> [task EXCEPT !.at = "returned"]
      [] task.proxy = None -> [task EXCEPT !.at = "retries"]
      [] RemoveRaises(pool, task.proxy) -> [task EXCEPT !.at = "except"]
      [] OTHER -> [task EXCEPT !.at = "retries", !.removed = TRUE]

\* asyncio.gather(self._make_request(a), self._make_request(b)) on a scraper
\* with proxies; the session is created by the call that runs first
RaceStart ==
    /\ pc = "idle" /\ use_proxies /\ obs.begun < MaxOps
    /\ op' = "gather"
    /\ pc' = "race"
    /\ result' = "none"
    /\ session' = TRUE
    /\ tasks' = <<NewTask, NewTask>>
    /\ obs' = [StartObs(obs) EXCEPT !.begun = @ + 1]
    /\ backoff' = NoBackoff
    /\ UNCHANGED <<lists, util, max_retries, use_proxies, uploads, batch, stats,
                   proxy_pool, last_proxy_refresh, now, stack, ret, chan, proxy>>

\* call k: proxy = await self._get_proxy()
RaceGetProxy(k) ==
    /\ pc = "race" /\ tasks[k].at = "start"
    /\ GetProxy("no")
    /\ tasks' = [tasks EXCEPT ![k] = [@ EXCEPT !.at = "request", !.proxy = proxy']]
    /\ backoff' = NoBackoff
    /\ UNCHANGED <<lists, util, max_retries, use_proxies, uploads, batch, stats,
                   session, op, pc, stack, ret, chan, result>>

\* call k: its response is in; the status checks run up to the next await
RaceResponse(k) ==
    /\ pc = "race" /\ tasks[k].at = "request"
    /\ \E status \in RaceStatuses :
         /\ tasks' = [tasks EXCEPT ![k] = TaskAfter(@, status, proxy_pool)]
         /\ proxy_pool' = IF TaskAfter(tasks[k], status, proxy_pool).removed
                          THEN Penalize(proxy_pool, tasks[k].proxy)
                          ELSE proxy_pool
    /\ backoff' = NoBackoff
    /\ UNCHANGED <<lists, util, max_retries, use_proxies, uploads, batch, stats,
                   session, last_proxy_refresh, now, op, pc, stack, ret, chan,
                   proxy, result, obs>>

\* both calls have left their first pass
RaceOver ==
    /\ pc = "race"
    /\ \A k \in 1..2 : tasks[k].at \in {"returned", "retries", "except"}
    /\ pc' = "idle"
    /\ result' = "gathered"
    /\ backoff' = NoBackoff
    /\ UNCHANGED <<lists, util, tasks, max_retries, use_proxies, uploads, batch,
                   stats, session, proxy_pool, last_proxy_refresh, now, op, stack,
                   ret, chan, proxy, obs>>

----------------------------------------------------------------------------
(* utils.make_request(url, proxy=None, retries=...): the loop over         *)
(* range(retries), one HTTP request per pass                                *)

\* how one attempt ends: status 200 and the text read ("200"), status 200
\* and response.text() raising, status 429 (it sleeps Retry-After), another
\* status, or an exception from session.get
AttemptAnswers == {"200", "200 unreadable", "429", "other", "exception"}
LoopGoesOnInclusive(u) == u.attempt <= u.retries
\* for attempt in range(retries)
LoopGoesOn(u) == u.attempt < u.retries

\* the call, with the number of retries its caller passes
UtilsMakeRequestStart ==
    /\ pc = "idle" /\ obs.begun < MaxOps
    /\ op' = "make_request"
    /\ pc' = "utils"
    /\ result' = "none"
    /\ obs' = [StartObs(obs) EXCEPT !.begun = @ + 1]
    /\ \E retries \in 0..MaxTries : util' = [NoUtil EXCEPT !.retries = retries]
    /\ backoff' = NoBackoff
    /\ UNCHANGED <<lists, tasks, max_retries, use_proxies, uploads, batch, stats,
                   session, proxy_pool, last_proxy_refresh, now, stack, ret, chan,
                   proxy>>

\* one pass: the request, then the return of the text, or the sleep and the
\* next pass
UtilsMakeRequestAttempt ==
    /\ op = "make_request" /\ pc = "utils"
    /\ LoopGoesOn(util)
    /\ \E answer \in AttemptAnswers :
         IF answer = "200"
         THEN /\ util' = [util EXCEPT !.answers = Append(@, answer),
                                      !.ret = "body"]
              /\ pc' = "idle"
              /\ result' = "body"
         ELSE /\ util' = [util EXCEPT !.answers = Append(@, answer),
                                      !.attempt = @ + 1]
              /\ pc' = pc
              /\ result' = result
    /\ backoff' = NoBackoff
    /\ UNCHANGED <<lists, tasks, max_retries, use_proxies, uploads, batch, stats,
                   session, proxy_pool, last_proxy_refresh, now, op, stack, ret,
                   chan, proxy, obs>>

\* the loop is over: return None
UtilsMakeRequestFinish ==
    /\ op = "make_request" /\ pc = "utils"
    /\ ~LoopGoesOn(util)
    /\ util' = [util EXCEPT !.ret = None]
    /\ pc' = "idle"
    /\ result' = None
    /\ backoff' = NoBackoff
    /\ UNCHANGED <<lists, tasks, max_retries, use_proxies, uploads, batch, stats,
                   session, proxy_pool, last_proxy_refresh, now, op, stack, ret,
                   chan, proxy, obs>>

----------------------------------------------------------------------------
Next ==
    \/ ScrapeVideoStart
    \/ MakeRequestEnter
    \/ MakeRequest
    \/ MakeRequestResume
    \/ ScrapeVideoFinish
    \/ ScrapeChannelStart
    \/ ScrapeChannelProxy
    \/ ScrapeChannelTry
    \/ ScrapeChannelFinish
    \/ ScrapeCommentsStart
    \/ ScrapeCommentsFinish
    \/ ScrapeChannelVideosStart
    \/ ScrapeChannelVideosEntry
    \/ ScrapeChannelVideosFinish
    \/ ScrapePlaylistsStart
    \/ ScrapePlaylistsFinish
    \/ ScrapeCommunityPostsStart
    \/ ScrapeCommunityPostsFinish
    \/ Close

Spec == Init /\ [][Next]_vars

\* one scrape_video on a scraper without proxies, max_retries up to DeepRetries
InitFetch == InitFor(0..DeepRetries, {FALSE}, UploadChoices)
NextFetch ==
    \/ ScrapeVideoStart
    \/ MakeRequestEnter
    \/ MakeRequest
    \/ MakeRequestResume
    \/ ScrapeVideoFinish
SpecFetch == InitFetch /\ [][NextFetch]_vars

\* scrape_channel_videos on channels with up to MaxEntries uploads
InitBatch == InitFor({0}, {FALSE}, 0..MaxEntries)
NextBatch ==
    \/ ScrapeChannelVideosStart
    \/ ScrapeChannelVideosEntry
    \/ ScrapeChannelVideosFinish
SpecBatch == InitBatch /\ [][NextBatch]_vars

\* every operation and get_stats on a scraper without proxies
InitStats == InitFor(RetryChoices, {FALSE}, UploadChoices)
NextStats == Next \/ GetStats
SpecStats == InitStats /\ [][NextStats]_vars

\* _handle_rate_limit alone, every retry_count up to MaxAttempt
InitBackoff == InitFor(BackoffRetries, BOOLEAN, UploadChoices)
NextBackoff == HandleRateLimitCall
SpecBackoff == InitBackoff /\ [][NextBackoff]_vars

\* scrape_comments on videos with up to MaxEntries top-level comments
InitComments == InitFor({0}, {FALSE}, 0..MaxEntries)
NextComments == ScrapeCommentsListed
SpecComments == InitComments /\ [][NextComments]_vars

\* scrape_playlists, its candidates listing up to MaxPlaylists playlists
InitPlaylists == InitFor({0}, {FALSE}, UploadChoices)
NextPlaylists ==
    \/ ScrapePlaylistsListStart
    \/ ScrapePlaylistsCandidate
    \/ ScrapePlaylistsListFinish
SpecPlaylists == InitPlaylists /\ [][NextPlaylists]_vars

\* two fetches side by side on a scraper with proxies
InitRace == InitFor({0}, {TRUE}, UploadChoices)
NextRace ==
    \/ RaceStart
    \/ \E k \in 1..2 : RaceGetProxy(k)
    \/ \E k \in 1..2 : RaceResponse(k)
    \/ RaceOver
SpecRace == InitRace /\ [][NextRace]_vars

\* utils.make_request alone, with retries up to MaxTries; its sleeps end,
\* so a pass that can be taken is taken
InitUtils == InitFor({0}, {FALSE}, UploadChoices)
NextUtils ==
    \/ UtilsMakeRequestStart
    \/ UtilsMakeRequestAttempt
    \/ UtilsMakeRequestFinish
SpecUtils ==
    /\ InitUtils /\ [][NextUtils]_vars
    /\ WF_vars(UtilsMakeRequestAttempt) /\ WF_vars(UtilsMakeRequestFinish)

\* _get_proxy alone, call after call
InitRefresh == InitFor({0}, {TRUE}, UploadChoices)
NextRefresh == GetProxyCall
SpecRefresh == InitRefresh /\ [][NextRefresh]_vars

----------------------------------------------------------------------------
(* Properties *)

\* the fetch of the scrape_video started last has handed its outcome back
FetchOver == op = "scrape_video" /\ stack = <<>> /\ ret.kind # "none"
\* the step sends an HTTP request of a fetch or of the candidate loop
Requests == obs'.nreq = obs.nreq + 1 \/ Len(obs'.tried) = Len(obs.tried) + 1
Balanced(s) == s.total_requests = s.success_count + s.error_count

\* C1: a fetch answered only with 429 sends at most max_retries + 1 requests,
\* ends with the "Max retries exceeded" error, and neither requests nor
\* sleeps once _handle_rate_limit has raised.
C1_RateLimitedFetchBounded ==
    (op = "scrape_video" /\ obs.seen = {"r429"}) =>
        /\ obs.nreq <= max_retries + 1
        /\ ~obs.afterExh
        /\ FetchOver => (ret.kind = "raise" /\ ret.val = "Max retries exceeded")

\* C2: a fetch answered only with 403 makes at most max_retries retries (so
\* at most max_retries + 1 requests) and then fails, with or without a proxy.
C2_BlockedFetchBounded ==
    (op = "scrape_video" /\ obs.seen = {"r403"}) =>
        /\ obs.nreq <= max_retries + 1
        /\ stack # <<>> => Top(stack).retry_count <= max_retries

\* C3: a fetch whose every attempt ends in a non-status error sleeps before
\* each retry, retries with retry_count + 1, and re-raises the error after
\* the attempt numbered max_retries: max_retries + 1 requests in all.
C3_ErrorsRetriedThenReraised ==
    (op = "scrape_video" /\ obs.seen = {"err"}) =>
        /\ obs.nreq <= max_retries + 1
        /\ obs.nsleep = (IF obs.nreq <= max_retries THEN obs.nreq ELSE max_retries)
        /\ ret.kind = "none" => Top(stack).retry_count = obs.nreq
        /\ ret.kind # "none" =>
              /\ ret = [kind |-> "raise", val |-> "error"]
              /\ obs.nreq = max_retries + 1
C3_Witness ==
    /\ FetchOver /\ pc = "idle" /\ obs.seen = {"err"}
    /\ max_retries >= 2 /\ obs.nreq = max_retries + 1 /\ obs.nsleep = max_retries
    /\ ret.kind = "raise"

\* C4: once a request through proxy p is answered 403, p is no longer in
\* the pool.
C4_PenalizedProxyLeavesPool ==
    [][(Requests /\ obs'.last = "r403" /\ proxy # None)
          => proxy \notin Range(proxy_pool')]_vars

\* C5: with no operation in flight, total_requests = success_count +
\* error_count.
C5_CountersBalanceWhenIdle == pc = "idle" => Balanced(stats)

\* C6: at every point, total_requests >= success_count + error_count.
C6_RequestsCoverOutcomes ==
    stats.total_requests >= stats.success_count + stats.error_count
C6_Witness ==
    /\ pc = "fetch" /\ obs.nreq > 0 /\ obs.begun = 2
    /\ stats.total_requests = 2 /\ stats.success_count + stats.error_count = 1

\* C7: every 429 response seen by _make_request or by the candidate loop
\* adds one to rate_limits_hit.
C7_Every429Counted ==
    [][(Requests /\ obs'.last = "r429")
          => stats'.rate_limits_hit = stats.rate_limits_hit + 1]_vars

\* C8: with max_retries = 3, a scrape_video answered only with 429 returns no
\* record and leaves rate_limits_hit = 3 and error_count = 1.
C8_ScenarioC ==
    (op = "scrape_video" /\ pc = "idle" /\ obs.seen = {"r429"}
        /\ max_retries = 3 /\ obs.begun = 1) =>
        /\ result = None
        /\ stats.rate_limits_hit = 3
        /\ stats.error_count = 1

C10_CandidatesInOrder ==
    op = "scrape_channel" =>
        /\ Len(obs.tried) <= NShapes
        /\ \A i \in 1..Len(obs.tried) : obs.tried[i] = i
        /\ \A i \in obs.ok200 :
              /\ i = Len(obs.tried)
              /\ pc \in {"parse", "idle"}
              /\ chan.used_url = i
              /\ chan.html_content.shape = i
        /\ (obs.ok200 = {} /\ pc \in {"parse", "idle"} /\ result # "raised") =>
              (Len(obs.tried) = NShapes /\ chan.html_content = NoHtml)
C10_Witness ==
    /\ op = "scrape_channel" /\ pc = "idle"
    /\ obs.tried = <<1, 2, 3>> /\ obs.ok200 = {3}
    /\ chan.used_url = 3 /\ chan.html_content.shape = 3

\* C11: a candidate shape answered 429 is not requested again: the loop moves
\* to the next shape, whether _handle_rate_limit(0) slept (max_retries >= 1)
\* or raised (max_retries = 0), and no shape is requested twice.
C11_RateLimitedShapeSkipped ==
    (op = "scrape_channel" /\ obs.last = "r429") =>
        /\ chan.idx = obs.tried[Len(obs.tried)] + 1
        /\ chan.used_url = 0
        /\ \A i, j \in 1..Len(obs.tried) : i # j => obs.tried[i] # obs.tried[j]
        /\ obs.exhausted <=> max_retries = 0
C11_Witness ==
    /\ op = "scrape_channel" /\ pc = "request" /\ max_retries = 0
    /\ obs.last = "r429" /\ obs.exhausted /\ obs.tried = <<1>> /\ chan.idx = 2

\* C12: when none of the three shapes was answered 200 (429, 403, another
\* status or an exception on each), scrape_channel does not raise: it adds one
\* to error_count, leaves success_count alone and returns the default record
\* (channel_id and title the identifier, counts 0, custom_url the input).
C12_AllShapesFailGivesDefault ==
    [][(op = "scrape_channel" /\ pc = "parse" /\ pc' = "idle" /\ obs.ok200 = {}) =>
          /\ obs.tried = <<1, 2, 3>>
          /\ stats'.error_count = stats.error_count + 1
          /\ stats'.success_count = stats.success_count
          /\ stats'.total_requests = stats.total_requests
          /\ result' = "default"
          /\ chan'.channel = DefaultChannel]_vars
C12_Witness ==
    /\ op = "scrape_channel" /\ pc = "idle" /\ obs.ok200 = {}
    /\ obs.tried = <<1, 2, 3>> /\ obs.last = "r403" /\ obs.exhausted
    /\ result = "default" /\ chan.channel = DefaultChannel
    /\ stats.error_count = 1 /\ stats.success_count = 0

\* the entry did not fail
Kept(e) == e \notin batch.failed
Least(a, b) == IF a < b THEN a ELSE b

\* C13: in scrape_channel_videos an entry whose deep fetch or record fails
\* does not end the loop: every entry is processed, and the list returned is
\* the entries that did not fail, in listing order (entries 1..5 with only 3
\* failing give the records of 1, 2, 4, 5).
C13_FailedEntryDoesNotAbort ==
    (op = "scrape_channel_videos" /\ batch.i > 0) =>
        /\ batch.videos = SelectSeq(SubSeq(batch.entries, 1, batch.i - 1), Kept)
        /\ Len(batch.videos) + Cardinality(batch.failed) = batch.i - 1
        /\ pc = "idle" => (result = "list" /\ batch.i = Len(batch.entries) + 1)
        /\ (pc = "idle" /\ batch.entries = <<1, 2, 3, 4, 5>> /\ batch.failed = {3})
              => batch.videos = <<1, 2, 4, 5>>
C13_Witness ==
    /\ op = "scrape_channel_videos" /\ pc = "idle" /\ result = "list"
    /\ batch.entries = <<1, 2, 3, 4, 5>> /\ batch.failed = {3}
    /\ batch.videos = <<1, 2, 4, 5>>

\* C14: with max_videos a positive integer the entries fetched are the first
\* min(max_videos, uploads) of the listing and no more records than that are
\* returned; with max_videos 0 or None they are the whole listing.
C14_MaxVideosBoundsBatch ==
    (op = "scrape_channel_videos" /\ batch.i > 0) =>
        /\ (~batch.max_videos.none /\ batch.max_videos.n > 0) =>
              /\ batch.entries =
                    SubSeq(Listing(uploads), 1, Least(batch.max_videos.n, uploads))
              /\ Len(batch.videos) <= Least(batch.max_videos.n, uploads)
        /\ (batch.max_videos.none \/ batch.max_videos.n = 0) =>
              batch.entries = Listing(uploads)
C14_Witness ==
    /\ op = "scrape_channel_videos" /\ pc = "idle" /\ result = "list"
    /\ uploads = 5 /\ batch.max_videos = [none |-> FALSE, n |-> 2]
    /\ batch.entries = <<1, 2>> /\ batch.videos = <<1, 2>>

\* a request is about to be sent with the proxy _get_proxy handed out
PendingRequest ==
    \/ pc = "request"
    \/ pc = "fetch" /\ ret.kind = "none" /\ stack # <<>> /\ Top(stack).at = "request"
\* the step calls _get_proxy
GetsProxy == use_proxies /\ ~PendingRequest /\ PendingRequest'

\* C15: a refresh in which every list source fails leaves the pool as it
\* was, empty or not, and _get_proxy still returns to its caller, which goes
\* on to its request.
C15_FailedRefreshKeepsPool ==
    [][(GetsProxy /\ obs'.refresh = "all failed") =>
          /\ proxy_pool' = proxy_pool
          /\ obs'.fetched = <<>>
          /\ ret' = NoRet
          /\ proxy' \in Range(proxy_pool) \cup {None}]_vars
C15_Witness ==
    /\ use_proxies /\ PendingRequest /\ obs.refresh = "all failed"
    /\ proxy_pool # <<>> /\ proxy # None /\ now - last_proxy_refresh = 0

\* C16 as stated: a refresh on an empty pool in which every source fails
\* does not move last_proxy_refresh.
C16_AsStated ==
    [][(GetsProxy /\ obs'.refresh = "all failed" /\ proxy_pool = <<>>) =>
          last_proxy_refresh' = last_proxy_refresh]_vars
\* C16, amended: such a refresh sets last_proxy_refresh to the current time
\* and leaves the pool empty, and a call of _get_proxy on an empty pool
\* attempts a refresh however recent last_proxy_refresh is.
C16_EmptyPoolAlwaysRefreshes ==
    [][/\ (GetsProxy /\ obs'.refresh = "all failed" /\ proxy_pool = <<>>) =>
            (last_proxy_refresh' = now' /\ proxy_pool' = <<>>)
       /\ (GetsProxy /\ proxy_pool = <<>>
              /\ now' - last_proxy_refresh <= proxy_refresh_interval) =>
            obs'.refresh # "no"]_vars
C16_Witness ==
    /\ use_proxies /\ PendingRequest /\ obs.refresh = "all failed"
    /\ proxy_pool = <<>> /\ obs.nreq = 1 /\ obs.seen = {"err"}
    /\ now = 1000 /\ last_proxy_refresh = 1000

\* C17: a refresh of a non-empty pool older than the interval, in which some
\* source answers 200, leaves exactly the entries fetched in that refresh.
C17_RefreshReplacesPool ==
    [][(GetsProxy /\ obs'.refresh = "some" /\ proxy_pool # <<>>) =>
          proxy_pool' = obs'.fetched]_vars

\* C18: with proxies enabled _get_proxy returns None exactly when the pool
\* is empty after the refresh check and otherwise a member of the pool, and
\* a request whose proxy is None is sent all the same.
C18_ProxyFromPoolOrNone ==
    [][/\ GetsProxy =>
            /\ proxy' = None <=> proxy_pool' = <<>>
            /\ proxy' # None => proxy' \in Range(proxy_pool')
       /\ (use_proxies /\ PendingRequest /\ proxy = None) => Requests]_vars
C18_Witness ==
    /\ use_proxies /\ op = "scrape_video" /\ pc = "idle"
    /\ obs.nreq = 1 /\ obs.seen = {"payload"} /\ proxy_pool = <<>>
    /\ result = "record"

\* C19: _handle_rate_limit(n) raises exactly when n >= max_retries; when it
\* raises it has not slept, and when it returns it has slept once.
C19_ExhaustionIffAtLimit ==
    backoff.retry_count >= 0 =>
        /\ backoff.raised <=> backoff.retry_count >= max_retries
        /\ backoff.raised => backoff.sleeps = 0
        /\ ~backoff.raised => backoff.sleeps = 1
C19_Witness ==
    /\ max_retries = 3 /\ backoff.retry_count = 3 /\ backoff.raised
    /\ backoff.sleeps = 0

\* C20: the delay slept for attempt n lies between base and base + base/10
\* with base = min(300, 2^n) seconds; base does not decrease with n, is 300
\* from n = 9 on, and no delay is above 330 seconds (delays in hundredths).
C20_DelayWithinJitterOfCappedBase ==
    (backoff.retry_count >= 0 /\ ~backoff.raised) =>
        LET n == backoff.retry_count
            base == Least(300, 2 ^ n)
        IN /\ 100 * base <= backoff.delay
           /\ backoff.delay <= 110 * base
           /\ backoff.delay <= 33000
           /\ n >= 9 => base = 300
           /\ \A m \in 0..n : Least(300, 2 ^ m) <= base
C20_Witness ==
    /\ backoff.retry_count = 9 /\ ~backoff.raised /\ backoff.sleeps = 1
    /\ backoff.delay = 33000

\* C21: no step of a scrape operation or of get_stats lowers a counter of
\* the statistics.
C21_CountersNeverDecrease ==
    [][\A c \in Counters : stats'[c] >= stats[c]]_vars
C21_Witness ==
    /\ op = "get_stats" /\ obs.nstats = 2 /\ stats.end_time # NoTime
    /\ stats.total_requests = 2 /\ stats.success_count = 1
    /\ stats.error_count = 1

\* C22: a call of get_stats changes end_time and nothing else: counters and
\* start_time keep their values, the mapping returned carries those values,
\* and the rest of the scraper is untouched, on every call.
C22_GetStatsOnlyStampsEndTime ==
    [][obs'.nstats = obs.nstats + 1 =>
          /\ \A c \in Counters : stats'[c] = stats[c] /\ obs'.mapping[c] = stats[c]
          /\ stats'.start_time = stats.start_time
          /\ obs'.mapping.start_time = stats.start_time
          /\ stats'.end_time = now' /\ obs'.mapping.end_time = now'
          /\ UNCHANGED <<session, proxy_pool, last_proxy_refresh, max_retries,
                         use_proxies, pc>>]_vars
C22_Witness ==
    /\ op = "get_stats" /\ obs.nstats = 2 /\ stats.end_time = 1700
    /\ obs.mapping.end_time = 1700 /\ obs.mapping.total_requests = 1
    /\ stats.total_requests = 1 /\ stats.error_count = 1

\* C23: scrape_video and scrape_comments given an input with no video
\* identifier return at once (None, an empty list): no request, no session
\* created, no counter changed, nothing left to retry.
C23_InvalidIdReturnsAtOnce ==
    [][(pc = "idle" /\ pc' = "idle" /\ op' \in {"scrape_video", "scrape_comments"}) =>
          /\ stats' = stats
          /\ session' = session
          /\ obs'.nreq = 0 /\ obs'.nsleep = 0 /\ obs'.begun = obs.begun
          /\ stack' = <<>>
          /\ proxy_pool' = proxy_pool
          /\ result' = (IF op' = "scrape_video" THEN None ELSE "empty list")]_vars
C23_Witness ==
    /\ op = "scrape_video" /\ pc = "idle" /\ result = None
    /\ obs.begun = 1 /\ obs.nreq = 0 /\ ~session
    /\ stats.total_requests = 1 /\ stats.success_count = 1

\* C24: no scrape operation hands an exception to its caller, whatever
\* fails, a failing session creation in scrape_channel included.
C24_NoOperationRaises == result # "raised"

\* C25: _make_request returns a payload only from a response whose status
\* is 200; no other status, a 500 with a parseable body included, ends the
\* fetch with a returned payload.
C25_PayloadOnlyFrom200 ==
    (pc = "fetch" /\ ret.kind = "return" /\ obs.last = "payload") =>
        obs.status = 200

\* C26: scrape_channel gives up on the page ("Failed to fetch channel data
\* from all URL formats") and returns its default record only when every
\* candidate shape has been requested; a loop left at a shape answering 200,
\* with an empty body included, does not lead there.
C26_DefaultOnlyAfterAllShapes ==
    (/\ op = "scrape_channel" /\ pc = "idle" /\ result = "default"
     /\ Falsy(chan.html_content)) =>
        Len(obs.tried) = NShapes

\* C27: the session is created lazily with one warm-up per creation.  A
\* step visits the trending page exactly when it creates the session; that
\* step sends no real request, and real requests are sent only with a session
\* in place; a step that finds a session makes no warm-up (later requests and
\* retries reuse it); a failed warm-up leaves the session in place and the
\* operation going on to its request.
C27_OneWarmupPerSession ==
    [][/\ obs'.warmup # "no" <=> (~session /\ session')
       /\ (~session /\ session') => ~Requests
       /\ Requests => (session /\ session' /\ obs'.warmup = "no")
       /\ obs'.warmup = "failed" =>
             (session' /\ ret'.kind = "none" /\ pc' \in {"fetch", "candidates"})
      ]_vars
\* a second session, created after close(), whose warm-up failed, with the
\* real request of scrape_video about to be sent
C27_Witness ==
    /\ op = "scrape_video" /\ obs.begun = 2 /\ obs.warmup = "failed"
    /\ session /\ PendingRequest

\* C28: _get_proxy attempts a refresh if and only if the pool is empty or
\* more than 300 seconds have passed since last_proxy_refresh.  A call that
\* attempts one stamps last_proxy_refresh with its time, an empty pool
\* included however recent the last attempt; a call on a non-empty pool
\* within the interval contacts no source and leaves the pool and
\* last_proxy_refresh as they were.
C28_RefreshIffEmptyOrStale ==
    [][op' = "_get_proxy" =>
        IF proxy_pool = <<>> \/ now' - last_proxy_refresh > 300
        THEN obs'.refresh # "no" /\ last_proxy_refresh' = now'
        ELSE /\ obs'.refresh = "no" /\ obs'.fetched = <<>>
             /\ proxy_pool' = proxy_pool
             /\ last_proxy_refresh' = last_proxy_refresh
      ]_vars
\* a call on a non-empty pool exactly 300 seconds after the last refresh
C28_Witness ==
    /\ op = "_get_proxy" /\ obs.refresh = "no"
    /\ proxy_pool # <<>> /\ now - last_proxy_refresh = 300

\* the proxy URLs made from the non-blank lines of a text
RECURSIVE Listed(_)
Listed(lines) ==
    IF lines = <<>> THEN <<>>
    ELSE IF Head(lines) \in {"", " "} THEN Listed(Tail(lines))
    ELSE <<ProxyUrl(Head(lines))>> \o Listed(Tail(lines))
ListedBy(answers, k) == IF answers[k].ok THEN Listed(answers[k].lines) ELSE <<>>

\* C29: a failing list source does not end a refresh: whichever of the three
\* sources fail, a refresh started from an empty pool leaves the pool equal
\* to the entries made from the non-blank lines of the sources that answered
\* 200, in source order.
C29_FailedSourceIsSkipped ==
    [][(op' = "_get_proxy" /\ proxy_pool = <<>>) =>
        /\ obs'.refresh # "no"
        /\ proxy_pool' = ListedBy(obs'.answers, 1) \o ListedBy(obs'.answers, 2)
                            \o ListedBy(obs'.answers, 3)
      ]_vars
\* the first source failed, the second and third answered 200 with blank and
\* non-blank lines, and the pool holds the two entries in that order
C29_Witness ==
    /\ op = "_get_proxy" /\ obs.refresh = "some"
    /\ obs.answers = <<SourceFailed, [ok |-> TRUE, lines |-> <<"a", "">>],
                       [ok |-> TRUE, lines |-> <<" ", "b ">>]>>
    /\ obs.fetched = proxy_pool
    /\ proxy_pool = <<"http://a", "http://b">>

\* C30: every entry of scrape_channel_videos whose processing failed is
\* counted: when the operation has returned its list, error_count has grown
\* by at least the number of failed entries.
C30_FailedEntriesCounted ==
    (op = "scrape_channel_videos" /\ pc = "idle" /\ result = "list"
       /\ obs.begun = 1) =>
        stats.error_count >= Cardinality(batch.failed)

\* C31: scrape_comments goes through at most max_comments top-level
\* comments when max_comments is a positive integer, and through all of
\* them when it is 0 or absent.
C31_ZeroOrAbsentMeansAll ==
    (op = "scrape_comments" /\ pc = "idle" /\ result = "list") =>
        IF batch.max_videos.none \/ batch.max_videos.n = 0
        THEN batch.entries = Listing(uploads)
        ELSE batch.max_videos.n > 0 => Len(batch.entries) <= batch.max_videos.n

\* C32: on a scraper built with use_proxies=False the proxy pool is never
\* touched: whatever the operations and the responses, 403 included, the
\* pool stays empty, last_proxy_refresh stays 0, no list source is contacted
\* and every request goes out with no proxy.
C32_NoProxiesNoPool ==
    ~use_proxies =>
        /\ proxy_pool = <<>> /\ last_proxy_refresh = 0
        /\ obs.refresh = "no" /\ obs.fetched = <<>>
        /\ proxy = None
\* a second operation without proxies whose fetch has been answered 403
C32_Witness ==
    /\ ~use_proxies /\ obs.begun = 2 /\ "r403" \in obs.seen
    /\ op = "scrape_video" /\ pc = "idle"

\* the candidates that are there, below index i, in order
RECURSIVE PresentBelow(_, _)
PresentBelow(urls, i) ==
    IF i <= 1 THEN <<>>
    ELSE PresentBelow(urls, i - 1)
            \o (IF i - 1 <= Len(urls) /\ urls[i - 1] THEN <<i - 1>> ELSE <<>>)

\* C33: scrape_playlists requests its candidates in order, skipping the
\* absent ones, and stops at the first that gave a record.  While the loop
\* runs no record has been kept and every present candidate passed has been
\* requested (one that raised or gave nothing only moved the loop on); a
\* returned list holds the records of one candidate, the last requested, and
\* an empty result comes only after every present candidate was requested.
C33_StopsAtFirstCandidateWithRecords ==
    (op = "scrape_playlists" /\ lists.i > 0) =>
        /\ \A r \in Range(lists.playlists) :
              r.from = lists.requested[Len(lists.requested)]
        /\ lists.i <= NCandidates =>
              /\ lists.playlists = <<>>
              /\ lists.requested = PresentBelow(lists.urls, lists.i)
        /\ lists.i > NCandidates =>
              \E last \in 1..NCandidates :
                 /\ lists.requested = PresentBelow(lists.urls, last + 1)
                 /\ lists.playlists = <<>> => last = NCandidates
        /\ pc = "idle" => (result = "list" <=> lists.playlists # <<>>)
\* the first candidate raised, the second listed two playlists of which one
\* could be built, the third is there and was not requested
C33_Witness ==
    /\ op = "scrape_playlists" /\ pc = "idle" /\ result = "list"
    /\ lists.urls = <<TRUE, TRUE, TRUE>>
    /\ lists.requested = <<1, 2>>
    /\ lists.playlists = <<[from |-> 2, id |-> 2]>>

\* C34: when two fetches interleave at their awaits with proxies on, no
\* removal of a blocked proxy fails because the other fetch has removed
\* that proxy already.
C34_PenalizeNeverFails ==
    \A k \in DOMAIN tasks : tasks[k].at # "except"

\* the call has sent at most `retries` requests; while it runs no attempt
\* has answered 200 with its text; once it has returned, either the last
\* attempt is the only one that did and its body is what was returned, or
\* none did, all `retries` attempts were made and None was returned
UtilsWithinRetries ==
    op = "make_request" =>
        /\ Len(util.answers) <= util.retries
        /\ pc = "utils" => \A k \in 1..Len(util.answers) : util.answers[k] # "200"
        /\ pc = "idle" =>
              IF \E k \in 1..Len(util.answers) : util.answers[k] = "200"
              THEN /\ util.ret = "body" /\ result = "body"
                   /\ \A k \in 1..Len(util.answers) :
                         util.answers[k] = "200" <=> k = Len(util.answers)
              ELSE /\ util.ret = None /\ result = None
                   /\ Len(util.answers) = util.retries

\* C35: utils.make_request always terminates, after at most `retries` HTTP
\* requests: it returns the body of the first attempt that answers 200 and
\* sends nothing after it, and returns None when none of the `retries`
\* attempts did, whether they ended in 429, another status or an exception.
C35_TerminatesWithinRetries ==
    /\ []UtilsWithinRetries
    /\ (pc = "utils") ~> (pc = "idle")
\* three attempts: a 429, an exception, then a 200 whose body is returned
C35_Witness ==
    /\ op = "make_request" /\ pc = "idle" /\ util.retries = 3
    /\ util.answers = <<"429", "exception", "200">> /\ util.ret = "body"

====
